---- MODULE Spec2Model ----
(***************************************************************************)
(* Model of the block manager of src/src/block.rs: the block directory,   *)
(* the reference-count tree (block_local_rc), the resync queue            *)
(* (block_local_resync_queue), the two resync workers and the public      *)
(* operations write_block, read_block, need_block, block_incref and       *)
(* block_decref, each cut at its accesses to shared state.                *)
(*                                                                         *)
(* The clock counts in model units; the delays keep the order of the      *)
(* program's durations (0 < RESYNC_RETRY_TIMEOUT < BLOCK_RW_TIMEOUT       *)
(* < 2 * BLOCK_RW_TIMEOUT).                                                *)
(***************************************************************************)
EXTENDS Integers, Sequences, FiniteSets, TLC

\* ---------------------------------------------------------------- bounds
MaxTime == 1        \* the clock stops advancing here
MaxOps  == 1        \* operations the tasks of Clients start, in all
MaxCalls == 2       \* operations the tasks of Callers start, in all
MaxFaults == 1      \* failed RPC rounds and failed file writes, in all
MaxRC   == 2        \* largest count the merge check starts from
MaxMerges == 3      \* length of the operand sequences of the merge check
MaxVersionSteps == 3 \* add_block, merge and table updates on the versions
MaxHostLen == 3     \* longest host and root domain of host_to_bucket

\* ------------------------------------------------------------- constants
RESYNC_RETRY_TIMEOUT == 1
BLOCK_RW_TIMEOUT     == 2

\* ---------------------------------------------------------- configuration
RF == 3             \* data_replication_factor

Hashes  == {"h"}
Workers == {"w1", "w2"}
Clients == {"c1"}      \* tasks calling the public operations
Callers == {"k1", "k2"}      \* the same, holding on to what is returned
Tasks   == Clients \cup Callers
Procs   == Workers \cup Tasks
Peers   == 1..RF

\* Option<T>: None, or Some(x) holding x.
None    == <<>>
Some(x) == <<x>>
Unwrap(o) == o[1]

NoFile == None          \* no file at the path of the hash
Free   == "free"

\* The bytes whose hash is h, and the hash function on the byte strings
\* that can appear in a file.
Block(h) == <<7>>

hash(d) ==
    CASE d = <<7>> -> "h"
      [] d = <<>>  -> "h_empty"
      [] OTHER     -> "h_other"

\* --------------------------------------------------------- sled helpers
u64_from_bytes(x) == x

\* rc_merge with the test of the decrement off by one (old > 1).
rc_merge_StrictFloor(old, new) ==
    LET o == IF old = None THEN 0 ELSE u64_from_bytes(Unwrap(old))
        n == IF new = 0 THEN (IF o > 1 THEN o - 1 ELSE o) ELSE o + 1
    IN  IF n = 0 THEN None ELSE Some(n)

\* rc_merge(key, old, new): old is None or a count, new is the operand byte.
rc_merge(old, new) ==
    LET o == IF old = None THEN 0 ELSE u64_from_bytes(Unwrap(old))
        n == IF new = 0 THEN (IF o > 0 THEN o - 1 ELSE 0) ELSE o + 1
    IN  IF n = 0 THEN None ELSE Some(n)

\* An ordered tree is a function from its keys to its values.
EmptyTree == [k \in {} |-> ""]

TreeInsert(t, k, v) == [x \in DOMAIN t \cup {k} |-> IF x = k THEN v ELSE t[x]]

TreeRemove(t, k) == [x \in DOMAIN t \ {k} |-> t[x]]

\* Keys of the resync queue: be_u64(when) || hash, compared bytewise.
QueueKey(when, h) == <<when, h>>

HashLess(a, b) == FALSE   \* a single hash: no two distinct hashes to order

KeyLess(a, b) == a[1] < b[1] \/ (a[1] = b[1] /\ HashLess(a[2], b[2]))

MinKey(t) == CHOOSE k \in DOMAIN t : \A k2 \in DOMAIN t : k2 = k \/ KeyLess(k, k2)

HashKey(h) == <<h>>      \* the bytes of the hash alone

\* ------------------------------------------------------------ the state
VARIABLES
    now,            \* now_msec()
    rc,             \* block_local_rc: hash -> None (key absent) or count
    file,           \* block directory: hash -> NoFile or the file's bytes
    resync_queue,   \* block_local_resync_queue: key -> value
    lock,           \* BlockManager.lock: Free or the task holding it
    must_exit,      \* the shutdown signal of the background runner
    pc,             \* where each task stands
    cur,            \* worker: <<key, value>> popped; caller: <<hash>>
    loc,            \* the local variables of each task
    ops,            \* number of operations the callers have started
    faults,         \* number of RPC rounds and file writes that failed
    m_old,          \* merge check: the value of the key before the merges
    m_opsA,         \* merge check: operands, first order
    m_opsB,         \* merge check: operands, second order
    m_i,            \* merge check: operands of m_opsA applied so far
    m_j,            \* merge check: operands of m_opsB applied so far
    m_a,            \* merge check: value after m_i merges of m_opsA
    m_b,            \* merge check: value after m_j merges of m_opsB
    vs,             \* versions: the Version values a and b, None until built
    v_ab,           \* versions: the last merge x.merge(y), None before
    v_ba,           \* versions: the same two merged as y.merge(x), None before
    entry,          \* version table: the entry stored for the uuid
    block_refs,     \* block_ref_table: the BlockRefs inserted, in order
    v_n,            \* versions: steps taken so far
    h_host,         \* host_to_bucket: the host
    h_root,         \* host_to_bucket: the root domain
    h_bucket        \* host_to_bucket: the bucket returned, None before

bmvars == <<now, rc, file, resync_queue, lock, must_exit, pc, cur, loc, ops, faults>>
mgvars == <<m_old, m_opsA, m_opsB, m_i, m_j, m_a, m_b>>
vtvars == <<vs, v_ab, v_ba, entry, block_refs, v_n>>
hbvars == <<h_host, h_root, h_bucket>>
vars   == <<now, rc, file, resync_queue, lock, must_exit, pc, cur, loc, ops, faults,
            m_old, m_opsA, m_opsB, m_i, m_j, m_a, m_b,
            vs, v_ab, v_ba, entry, block_refs, v_n, h_host, h_root, h_bucket>>

ReplyKinds == {"true", "false", "err", "other"}

LocInit == [exists |-> FALSE, needed |-> FALSE, needed_by_others |-> FALSE,
            old_rc |-> None, who_needs |-> [p \in Peers |-> "none"],
            acked |-> {}, data |-> <<>>,
            op |-> "none", res |-> "none", saw |-> NoFile, after_write |-> None]

HashOf(p) == IF p \in Workers THEN cur[p][2] ELSE cur[p][1]

RC(h) == IF rc[h] = None THEN 0 ELSE u64_from_bytes(Unwrap(rc[h]))

\* put_to_resync(hash, delay) applied to the queue q
put_to_resync(q, h, delay) == TreeInsert(q, QueueKey(now + delay, h), h)

\* BlockManager::new opens the trees and the directory an earlier run left:
\* nothing; a referenced block, stored; a referenced block that is still to
\* be fetched, its resync entry due; a block no longer referenced that is
\* still to be removed, its resync entry due.
StoredStates ==
    { [rc |-> None,    file |-> NoFile,      queued |-> FALSE],
      [rc |-> Some(1), file |-> Some(<<7>>), queued |-> FALSE],
      [rc |-> Some(1), file |-> NoFile,      queued |-> TRUE],
      [rc |-> None,    file |-> Some(<<7>>), queued |-> TRUE] }

\* The last of these, the file cut short by a write that did not complete.
CutShort == [rc |-> None, file |-> Some(<<>>), queued |-> TRUE]

MergeIdle ==
    /\ m_old = None /\ m_opsA = <<>> /\ m_opsB = <<>>
    /\ m_i = 0 /\ m_j = 0 /\ m_a = None /\ m_b = None

\* No version built, the version table and the block_ref_table empty.
VersionIdle ==
    /\ vs = [x \in {"a", "b"} |-> None]
    /\ v_ab = None /\ v_ba = None
    /\ entry = None
    /\ block_refs = <<>>
    /\ v_n = 0

\* No request handled by the web server.
HostIdle == h_host = <<>> /\ h_root = <<>> /\ h_bucket = None

BMInitFrom(stored) ==
    /\ now = 0
    /\ \E st \in stored :
         /\ rc = [h \in Hashes |-> st.rc]
         /\ file = [h \in Hashes |-> st.file]
         /\ resync_queue = IF st.queued
                           THEN [k \in {QueueKey(0, h) : h \in Hashes} |-> k[2]]
                           ELSE EmptyTree
    /\ lock = Free
    /\ must_exit = FALSE
    /\ pc = [p \in Procs |-> IF p \in Workers THEN "loop" ELSE "idle"]
    /\ cur = [p \in Procs |-> <<>>]
    /\ loc = [p \in Procs |-> LocInit]
    /\ ops = 0
    /\ faults = 0

BMInit == BMInitFrom(StoredStates)

Init == BMInit /\ MergeIdle /\ VersionIdle /\ HostIdle

\* ------------------------------------------------------ control helpers
\* Task p moves to newpc with cur newcur and locals newloc; the queue
\* becomes q.
Step(p, newpc, newcur, newloc, q) ==
    /\ pc' = [pc EXCEPT ![p] = newpc]
    /\ cur' = [cur EXCEPT ![p] = newcur]
    /\ loc' = [loc EXCEPT ![p] = newloc]
    /\ resync_queue' = q

Goto(p, newpc, newloc, q) == Step(p, newpc, cur[p], newloc, q)

\* IterEnd without the put_to_resync of line 180.
IterEnd_Forget(w, q, ok) ==
    /\ pc' = [pc EXCEPT ![w] = "loop"]
    /\ loc' = [loc EXCEPT ![w] = LocInit]
    /\ cur' = [cur EXCEPT ![w] = <<>>]
    /\ resync_queue' = q

\* resync_loop, lines 178-182: resync_iter returned; on Err the hash is put
\* back at now + RESYNC_RETRY_TIMEOUT; then `continue`.
IterEnd(w, q, ok) ==
    /\ pc' = [pc EXCEPT ![w] = "loop"]
    /\ loc' = [loc EXCEPT ![w] = LocInit]
    /\ cur' = [cur EXCEPT ![w] = <<>>]
    /\ resync_queue' = IF ok THEN q
                       ELSE put_to_resync(q, HashOf(w), RESYNC_RETRY_TIMEOUT)

\* A public operation called from outside returns r.  A task of Callers
\* holds the result at "done", the hash of the call still in cur; a task of
\* Clients drops it.
ClientReturn(c, q, r) ==
    /\ resync_queue' = q
    /\ IF c \in Callers
       THEN /\ pc' = [pc EXCEPT ![c] = "done"]
            /\ loc' = [loc EXCEPT ![c] =
                         [LocInit EXCEPT !.op = r.op, !.res = r.res,
                                         !.data = r.data, !.saw = r.saw,
                                         !.after_write = loc[c].after_write]]
            /\ cur' = [cur EXCEPT ![c] = <<r.hash>>]
       ELSE /\ pc' = [pc EXCEPT ![c] = "idle"]
            /\ loc' = [loc EXCEPT ![c] = LocInit]
            /\ cur' = [cur EXCEPT ![c] = <<>>]

\* The result of an operation; saw is the state of the file the operation
\* found when it looked.
Result(h, op, res, data, saw) ==
    [hash |-> h, op |-> op, res |-> res, data |-> data, saw |-> saw]

\* A caller starts an operation.
ClientCall(c) ==
    /\ pc[c] = "idle"
    /\ ops < (IF c \in Callers THEN MaxCalls ELSE MaxOps)
    /\ ops' = ops + 1

\* read_block or write_block returns r to the task that called it: a
\* caller from outside, or resync_iter (lines 244 and 266, both with `?`).
OpReturn(p, q, r) ==
    IF p \in Tasks THEN ClientReturn(p, q, r)
    ELSE IF r.op = "read_block" /\ r.res = "PutBlock"
         THEN Goto(p, "ri_push", [loc[p] EXCEPT !.data = r.data], q)
         ELSE IterEnd(p, q, r.res = "Ok")

\* An RPC round or a file write fails, or does not.
Fault(failed) ==
    /\ failed => faults < MaxFaults
    /\ faults' = IF failed THEN faults + 1 ELSE faults

\* ------------------------------------------------------------ the clock
Tick ==
    /\ now < MaxTime
    /\ now' = now + 1
    /\ UNCHANGED <<rc, file, resync_queue, lock, must_exit, pc, cur, loc, ops>>
    /\ UNCHANGED <<faults, mgvars, vtvars, hbvars>>

\* The caller is done with the result.
ClientDone(c) ==
    /\ pc[c] = "done"
    /\ Step(c, "idle", <<>>, LocInit, resync_queue)
    /\ UNCHANGED <<now, rc, file, lock, must_exit, ops>>
    /\ UNCHANGED <<faults, mgvars, vtvars, hbvars>>

\* The caller's write_block(h, b) returned Ok and the caller goes on with
\* read_block(h).
ClientReadAfterWrite(c) ==
    /\ pc[c] = "done"
    /\ loc[c].op = "write_block" /\ loc[c].res = "Ok"
    /\ Step(c, "rb_read", cur[c], [LocInit EXCEPT !.after_write = Some(loc[c].saw)],
            resync_queue)
    /\ UNCHANGED <<now, rc, file, lock, must_exit, ops>>
    /\ UNCHANGED <<faults, mgvars, vtvars, hbvars>>

\* --------------------------------------------------------- write_block
ClientCallWrite(c) ==
    /\ ClientCall(c)
    /\ \E h \in Hashes :
         Step(c, "wb_start", <<h>>, [loc[c] EXCEPT !.data = Block(h)], resync_queue)
    /\ UNCHANGED <<now, rc, file, lock, must_exit>>
    /\ UNCHANGED <<faults, mgvars, vtvars, hbvars>>

\* WriteBlockStart without the test of lines 69-71: the file is always
\* created anew.
WriteBlockStart_NoCheck(p) ==
    /\ pc[p] = "wb_start"
    /\ lock = Free
    /\ LET h == HashOf(p) IN
         /\ file' = [file EXCEPT ![h] = Some(<<>>)]
         /\ lock' = p
         /\ Goto(p, "wb_write", loc[p], resync_queue)
    /\ UNCHANGED <<now, rc, must_exit, ops>>
    /\ UNCHANGED <<faults, mgvars, vtvars, hbvars>>

\* Lines 65-75: take the lock; if the file exists return Ok, else create it.
WriteBlockStart(p) ==
    /\ pc[p] = "wb_start"
    /\ lock = Free
    /\ LET h == HashOf(p) IN
         IF file[h] # NoFile
         THEN /\ OpReturn(p, resync_queue, Result(h, "write_block", "Ok", <<>>, file[h]))
              /\ UNCHANGED <<file, lock>>
         ELSE /\ file' = [file EXCEPT ![h] = Some(<<>>)]
              /\ lock' = p
              /\ Goto(p, "wb_write", loc[p], resync_queue)
    /\ UNCHANGED <<now, rc, must_exit, ops>>
    /\ UNCHANGED <<faults, mgvars, vtvars, hbvars>>

\* Lines 76-79: write_all writes the data, or fails after a strict prefix
\* of it; the lock is dropped on return.  A file unlinked meanwhile stays
\* unlinked.
WriteBlockWrite(p) ==
    /\ pc[p] = "wb_write"
    /\ lock = p
    /\ LET h == HashOf(p)
           data == loc[p].data
       IN  \E k \in 0..Len(data) :
             /\ Fault(k < Len(data))
             /\ file' = IF file[h] = NoFile THEN file
                        ELSE [file EXCEPT ![h] = Some(SubSeq(data, 1, k))]
             /\ OpReturn(p, resync_queue,
                         Result(h, "write_block", IF k = Len(data) THEN "Ok" ELSE "Err",
                                <<>>, NoFile))
    /\ lock' = Free
    /\ UNCHANGED <<now, rc, must_exit, ops>>
    /\ UNCHANGED <<mgvars, vtvars, hbvars>>

\* ---------------------------------------------------------- read_block
ClientCallRead(c) ==
    /\ ClientCall(c)
    /\ \E h \in Hashes : Step(c, "rb_read", <<h>>, loc[c], resync_queue)
    /\ UNCHANGED <<now, rc, file, lock, must_exit>>
    /\ UNCHANGED <<faults, mgvars, vtvars, hbvars>>

\* Lines 85-97 and 105-108: open and read the file; not found: put to
\* resync at now and return the error; hash equal: return PutBlock.
ReadBlockRead(p) ==
    /\ pc[p] = "rb_read"
    /\ LET h == HashOf(p) IN
         IF file[h] = NoFile
         THEN OpReturn(p, put_to_resync(resync_queue, h, 0),
                       Result(h, "read_block", "Err", <<>>, NoFile))
         ELSE LET data == Unwrap(file[h]) IN
              IF hash(data) # h
              THEN Goto(p, "rb_fix", [loc[p] EXCEPT !.data = data], resync_queue)
              ELSE OpReturn(p, resync_queue, Result(h, "read_block", "PutBlock", data, file[h]))
    /\ UNCHANGED <<now, rc, file, lock, must_exit, ops>>
    /\ UNCHANGED <<faults, mgvars, vtvars, hbvars>>

\* Lines 98-102: under the lock, remove the file, put to resync at now,
\* return CorruptData; remove_file fails when the file is gone.
ReadBlockFix(p) ==
    /\ pc[p] = "rb_fix"
    /\ lock = Free
    /\ LET h == HashOf(p) IN
         IF file[h] = NoFile
         THEN /\ OpReturn(p, resync_queue, Result(h, "read_block", "Err", <<>>, NoFile))
              /\ UNCHANGED file
         ELSE /\ file' = [file EXCEPT ![h] = NoFile]
              /\ OpReturn(p, put_to_resync(resync_queue, h, 0),
                          Result(h, "read_block", "CorruptData", <<>>, file[h]))
    /\ UNCHANGED <<now, rc, lock, must_exit, ops>>
    /\ UNCHANGED <<faults, mgvars, vtvars, hbvars>>

\* ---------------------------------------------------------- need_block
\* Lines 112-117 and 121-123: read the count.
NeedBlockGet(c) ==
    /\ ClientCall(c)
    /\ \E h \in Hashes :
         LET needed == IF rc[h] = None THEN FALSE ELSE u64_from_bytes(Unwrap(rc[h])) > 0
         IN  IF needed
             THEN Step(c, "nb_meta", <<h>>, [loc[c] EXCEPT !.needed = needed], resync_queue)
             ELSE ClientReturn(c, resync_queue, Result(h, "need_block", "false", <<>>, NoFile))
    /\ UNCHANGED <<now, rc, file, lock, must_exit>>
    /\ UNCHANGED <<faults, mgvars, vtvars, hbvars>>

\* NeedBlockMeta answering `exists` instead of `!exists`.
NeedBlockMeta_Exists(c) ==
    /\ pc[c] = "nb_meta"
    /\ LET exists == file[HashOf(c)] # NoFile IN
         ClientReturn(c, resync_queue,
                      Result(HashOf(c), "need_block", IF exists THEN "true" ELSE "false",
                             <<>>, file[HashOf(c)]))
    /\ UNCHANGED <<now, rc, file, lock, must_exit, ops>>
    /\ UNCHANGED <<faults, mgvars, vtvars, hbvars>>

\* Lines 118-120: the answer is that the file does not exist.
NeedBlockMeta(c) ==
    /\ pc[c] = "nb_meta"
    /\ LET exists == file[HashOf(c)] # NoFile IN
         ClientReturn(c, resync_queue,
                      Result(HashOf(c), "need_block", IF ~exists THEN "true" ELSE "false",
                             <<>>, file[HashOf(c)]))
    /\ UNCHANGED <<now, rc, file, lock, must_exit, ops>>
    /\ UNCHANGED <<faults, mgvars, vtvars, hbvars>>

\* -------------------------------------------------------- block_incref
\* Line 139: old_rc = rc.get(hash).
IncrefGet(c) ==
    /\ ClientCall(c)
    /\ \E h \in Hashes :
         Step(c, "ic_merge", <<h>>, [loc[c] EXCEPT !.old_rc = rc[h]], resync_queue)
    /\ UNCHANGED <<now, rc, file, lock, must_exit>>
    /\ UNCHANGED <<faults, mgvars, vtvars, hbvars>>

\* Lines 140-141: merge the operand 1; decide on old_rc.
IncrefMerge(c) ==
    /\ pc[c] = "ic_merge"
    /\ LET h == HashOf(c)
           old_rc == loc[c].old_rc
       IN  /\ rc' = [rc EXCEPT ![h] = rc_merge(rc[h], 1)]
           /\ IF old_rc = None \/ u64_from_bytes(Unwrap(old_rc)) = 0
              THEN Goto(c, "ic_put", loc[c], resync_queue)
              ELSE ClientReturn(c, resync_queue, Result(HashOf(c), "block_incref", "Ok", <<>>, NoFile))
    /\ UNCHANGED <<now, file, lock, must_exit, ops>>
    /\ UNCHANGED <<faults, mgvars, vtvars, hbvars>>

\* Line 142: put_to_resync(hash, 2 * BLOCK_RW_TIMEOUT).
IncrefPut(c) ==
    /\ pc[c] = "ic_put"
    /\ ClientReturn(c, put_to_resync(resync_queue, HashOf(c), 2 * BLOCK_RW_TIMEOUT),
                    Result(HashOf(c), "block_incref", "Ok", <<>>, NoFile))
    /\ UNCHANGED <<now, rc, file, lock, must_exit, ops>>
    /\ UNCHANGED <<faults, mgvars, vtvars, hbvars>>

\* -------------------------------------------------------- block_decref
\* Lines 148-149: merge the operand 0; decide on the value merge returns.
DecrefMerge(c) ==
    /\ ClientCall(c)
    /\ \E h \in Hashes :
         LET new_rc == rc_merge(rc[h], 0) IN
           /\ rc' = [rc EXCEPT ![h] = new_rc]
           /\ IF new_rc = None \/ u64_from_bytes(Unwrap(new_rc)) = 0
              THEN Step(c, "dc_put", <<h>>, loc[c], resync_queue)
              ELSE ClientReturn(c, resync_queue, Result(h, "block_decref", "Ok", <<>>, NoFile))
    /\ UNCHANGED <<now, file, lock, must_exit>>
    /\ UNCHANGED <<faults, mgvars, vtvars, hbvars>>

\* DecrefPut with the delay of block_incref.
DecrefPut_Late(c) ==
    /\ pc[c] = "dc_put"
    /\ ClientReturn(c, put_to_resync(resync_queue, HashOf(c), 2 * BLOCK_RW_TIMEOUT),
                    Result(HashOf(c), "block_decref", "Ok", <<>>, NoFile))
    /\ UNCHANGED <<now, rc, file, lock, must_exit, ops>>
    /\ UNCHANGED <<faults, mgvars, vtvars, hbvars>>

\* Line 150: put_to_resync(hash, BLOCK_RW_TIMEOUT).
DecrefPut(c) ==
    /\ pc[c] = "dc_put"
    /\ ClientReturn(c, put_to_resync(resync_queue, HashOf(c), BLOCK_RW_TIMEOUT),
                    Result(HashOf(c), "block_decref", "Ok", <<>>, NoFile))
    /\ UNCHANGED <<now, rc, file, lock, must_exit, ops>>
    /\ UNCHANGED <<faults, mgvars, vtvars, hbvars>>

\* --------------------------------------------------------- resync_loop
\* ResyncLoopPop without the test of line 173: every entry popped goes to
\* resync_iter.
ResyncLoopPop_Eager(w) ==
    /\ pc[w] = "loop"
    /\ IF must_exit
       THEN Step(w, "exited", cur[w], loc[w], resync_queue)
       ELSE /\ DOMAIN resync_queue # {}
            /\ LET time_bytes == MinKey(resync_queue)
                   hash_bytes == resync_queue[time_bytes]
               IN  Step(w, "ri_exists", <<time_bytes, hash_bytes>>, loc[w],
                        TreeRemove(resync_queue, time_bytes))
    /\ UNCHANGED <<now, rc, file, lock, must_exit, ops>>
    /\ UNCHANGED <<faults, mgvars, vtvars, hbvars>>

\* ResyncLoopPop without the test of must_exit of line 165.
ResyncLoopPop_NoExit(w) ==
    /\ pc[w] = "loop"
    /\ DOMAIN resync_queue # {}
    /\ LET time_bytes == MinKey(resync_queue)
           hash_bytes == resync_queue[time_bytes]
           time_msec  == u64_from_bytes(time_bytes[1])
       IN  Step(w, IF now >= time_msec THEN "ri_exists" ELSE "reinsert",
                <<time_bytes, hash_bytes>>, loc[w],
                TreeRemove(resync_queue, time_bytes))
    /\ UNCHANGED <<now, rc, file, lock, must_exit, ops>>
    /\ UNCHANGED <<faults, mgvars, vtvars, hbvars>>

\* Lines 165-173 and 183: the loop head; pop_min; an entry that is due goes
\* to resync_iter.  (An empty queue: sleep one second and loop.)
ResyncLoopPop(w) ==
    /\ pc[w] = "loop"
    /\ IF must_exit
       THEN Step(w, "exited", cur[w], loc[w], resync_queue)
       ELSE /\ DOMAIN resync_queue # {}
            /\ LET time_bytes == MinKey(resync_queue)
                   hash_bytes == resync_queue[time_bytes]
                   time_msec  == u64_from_bytes(time_bytes[1])
               IN  Step(w, IF now >= time_msec THEN "ri_exists" ELSE "reinsert",
                        <<time_bytes, hash_bytes>>, loc[w],
                        TreeRemove(resync_queue, time_bytes))
    /\ UNCHANGED <<now, rc, file, lock, must_exit, ops>>
    /\ UNCHANGED <<faults, mgvars, vtvars, hbvars>>

\* Lines 184 and 187: the entry is not due: insert it again, sleep, loop.
ResyncLoopReinsert(w) ==
    /\ pc[w] = "reinsert"
    /\ Step(w, "loop", <<>>, loc[w], TreeInsert(resync_queue, cur[w][1], cur[w][2]))
    /\ UNCHANGED <<now, rc, file, lock, must_exit, ops>>
    /\ UNCHANGED <<faults, mgvars, vtvars, hbvars>>

\* --------------------------------------------------------- resync_iter
\* Line 195: exists = metadata(path).is_ok().
ResyncIterExists(w) ==
    /\ pc[w] = "ri_exists"
    /\ Goto(w, "ri_needed", [loc[w] EXCEPT !.exists = file[HashOf(w)] # NoFile],
            resync_queue)
    /\ UNCHANGED <<now, rc, file, lock, must_exit, ops>>
    /\ UNCHANGED <<faults, mgvars, vtvars, hbvars>>

\* ResyncIterNeeded taking the count for 0 without reading it.
ResyncIterNeeded_NoRead(w) ==
    /\ pc[w] = "ri_needed"
    /\ LET h == HashOf(w)
           exists == loc[w].exists
           needed == FALSE
           l == [loc[w] EXCEPT !.needed = RC(h) > 0]
       IN  IF exists /\ ~needed THEN Goto(w, "ri_refs", l, resync_queue)
           ELSE IF needed /\ ~exists THEN Goto(w, "ri_fetch", l, resync_queue)
           ELSE IterEnd(w, resync_queue, TRUE)
    /\ UNCHANGED <<now, rc, file, lock, must_exit, ops>>
    /\ UNCHANGED <<faults, mgvars, vtvars, hbvars>>

\* Lines 196-207 and 261: needed = the count is > 0; choose the branch.
ResyncIterNeeded(w) ==
    /\ pc[w] = "ri_needed"
    /\ LET h == HashOf(w)
           exists == loc[w].exists
           needed == IF rc[h] = None THEN FALSE ELSE u64_from_bytes(Unwrap(rc[h])) > 0
           l == [loc[w] EXCEPT !.needed = needed]
       IN  IF exists /\ ~needed THEN Goto(w, "ri_refs", l, resync_queue)
           ELSE IF needed /\ ~exists THEN Goto(w, "ri_fetch", l, resync_queue)
           ELSE IterEnd(w, resync_queue, TRUE)
    /\ UNCHANGED <<now, rc, file, lock, must_exit, ops>>
    /\ UNCHANGED <<faults, mgvars, vtvars, hbvars>>

\* Lines 209-214: block_ref_table.get_range: no live reference, some live
\* reference, or an error.
ResyncIterRefs(w) ==
    /\ pc[w] = "ri_refs"
    /\ \E active_refs \in {"empty", "some", "err"} :
         /\ Fault(active_refs = "err")
         /\ CASE active_refs = "err"   -> IterEnd(w, resync_queue, FALSE)
           [] active_refs = "empty" ->
                Goto(w, "ri_remove", [loc[w] EXCEPT !.needed_by_others = FALSE], resync_queue)
           [] active_refs = "some"  ->
                Goto(w, "ri_query", [loc[w] EXCEPT !.needed_by_others = TRUE], resync_queue)
    /\ UNCHANGED <<now, rc, file, lock, must_exit, ops>>
    /\ UNCHANGED <<mgvars, vtvars, hbvars>>

\* Lines 223-235: need_nodes and errors from the replies.
NeedNodes(who_needs) == {n \in Peers : who_needs[n] = "true"}

Errors(who_needs) == Cardinality({n \in Peers : who_needs[n] = "err"})

\* The nodes of the ring are interchangeable for resync_iter (it uses the
\* set of nodes that answered true and the number of RPCs that failed), so
\* the outcomes are enumerated up to a permutation of the nodes.
KindRank(k) == CASE k = "true" -> 1 [] k = "false" -> 2 [] k = "err" -> 3 [] OTHER -> 4

UpToPermutation(who_needs) ==
    \A i, j \in Peers : i < j => KindRank(who_needs[i]) <= KindRank(who_needs[j])

\* Lines 215-221: NeedBlockQuery to the RF nodes of the ring; join_all
\* gives one outcome per node: NeedBlockReply(true), NeedBlockReply(false),
\* Err, or Ok with another message.
ResyncIterQuery(w) ==
    /\ pc[w] = "ri_query"
    /\ \E who_needs \in [Peers -> ReplyKinds] :
         /\ UpToPermutation(who_needs)
         /\ Fault(\E n \in Peers : who_needs[n] \in {"err", "other"})
         /\ Goto(w, "ri_count", [loc[w] EXCEPT !.who_needs = who_needs], resync_queue)
    /\ UNCHANGED <<now, rc, file, lock, must_exit, ops>>
    /\ UNCHANGED <<mgvars, vtvars, hbvars>>

\* ResyncIterCount with the bound on the errors one too high.
ResyncIterCount_LaxQuorum(w) ==
    /\ pc[w] = "ri_count"
    /\ LET who_needs == loc[w].who_needs IN
         IF Errors(who_needs) > (RF + 1) \div 2
         THEN IterEnd(w, resync_queue, FALSE)
         ELSE IF Cardinality(NeedNodes(who_needs)) > 0
         THEN Goto(w, "rb_read", loc[w], resync_queue)
         ELSE Goto(w, "ri_remove", loc[w], resync_queue)
    /\ UNCHANGED <<now, rc, file, lock, must_exit, ops>>
    /\ UNCHANGED <<faults, mgvars, vtvars, hbvars>>

\* Lines 223-243: count; too many errors: return Err; some node needs the
\* block: read_block; else go on to remove the file.
ResyncIterCount(w) ==
    /\ pc[w] = "ri_count"
    /\ LET who_needs == loc[w].who_needs IN
         IF Errors(who_needs) > (RF - 1) \div 2
         THEN IterEnd(w, resync_queue, FALSE)
         ELSE IF Cardinality(NeedNodes(who_needs)) > 0
         THEN Goto(w, "rb_read", loc[w], resync_queue)
         ELSE Goto(w, "ri_remove", loc[w], resync_queue)
    /\ UNCHANGED <<now, rc, file, lock, must_exit, ops>>
    /\ UNCHANGED <<faults, mgvars, vtvars, hbvars>>

\* ResyncIterPush without the `resp?`: a failed PutBlock is ignored.
ResyncIterPush_IgnoreErr(w) ==
    /\ pc[w] = "ri_push"
    /\ \E acks \in SUBSET NeedNodes(loc[w].who_needs) :
         /\ Fault(acks # NeedNodes(loc[w].who_needs))
         /\ Goto(w, "ri_remove", [loc[w] EXCEPT !.acked = acks], resync_queue)
    /\ UNCHANGED <<now, rc, file, lock, must_exit, ops>>
    /\ UNCHANGED <<mgvars, vtvars, hbvars>>

\* Lines 245-254: PutBlock to need_nodes; any failed response is an error.
ResyncIterPush(w) ==
    /\ pc[w] = "ri_push"
    /\ \E acks \in SUBSET NeedNodes(loc[w].who_needs) :
         /\ Fault(acks # NeedNodes(loc[w].who_needs))
         /\ IF acks = NeedNodes(loc[w].who_needs)
            THEN Goto(w, "ri_remove", [loc[w] EXCEPT !.acked = acks], resync_queue)
            ELSE IterEnd(w, resync_queue, FALSE)
    /\ UNCHANGED <<now, rc, file, lock, must_exit, ops>>
    /\ UNCHANGED <<mgvars, vtvars, hbvars>>

\* Line 257: remove_file(path)?; it fails when the file is gone.
ResyncIterRemove(w) ==
    /\ pc[w] = "ri_remove"
    /\ LET h == HashOf(w) IN
         IF file[h] = NoFile
         THEN /\ IterEnd(w, resync_queue, FALSE)
              /\ UNCHANGED file
         ELSE /\ file' = [file EXCEPT ![h] = NoFile]
              /\ Goto(w, "ri_qremove", loc[w], resync_queue)
    /\ UNCHANGED <<now, rc, lock, must_exit, ops>>
    /\ UNCHANGED <<faults, mgvars, vtvars, hbvars>>

\* Lines 258-269: resync_queue.remove(&hash), the key being the hash; the
\* second branch is not taken (needed is false); return Ok.
ResyncIterQueueRemove(w) ==
    /\ pc[w] = "ri_qremove"
    /\ IterEnd(w, TreeRemove(resync_queue, HashKey(HashOf(w))), TRUE)
    /\ UNCHANGED <<now, rc, file, lock, must_exit, ops>>
    /\ UNCHANGED <<faults, mgvars, vtvars, hbvars>>

\* Lines 265-266 and rpc_get_block (301-321): a reply whose data hashes to
\* the hash, or an error; then write_block.
ResyncIterFetch(w) ==
    /\ pc[w] = "ri_fetch"
    /\ \E ok \in BOOLEAN :
         /\ Fault(~ok)
         /\ IF ok
            THEN Goto(w, "wb_start", [loc[w] EXCEPT !.data = Block(HashOf(w))],
                      resync_queue)
            ELSE IterEnd(w, resync_queue, FALSE)
    /\ UNCHANGED <<now, rc, file, lock, must_exit, ops>>
    /\ UNCHANGED <<mgvars, vtvars, hbvars>>

\* ------------------------------------------------------- specification
WorkerStep(w) ==
    \/ ResyncLoopPop(w)
    \/ ResyncLoopReinsert(w)
    \/ ResyncIterExists(w)
    \/ ResyncIterNeeded(w)
    \/ ResyncIterRefs(w)
    \/ ResyncIterQuery(w)
    \/ ResyncIterCount(w)
    \/ ResyncIterPush(w)
    \/ ResyncIterRemove(w)
    \/ ResyncIterQueueRemove(w)
    \/ ResyncIterFetch(w)

FsStep(p) ==
    \/ WriteBlockStart(p)
    \/ WriteBlockWrite(p)
    \/ ReadBlockRead(p)
    \/ ReadBlockFix(p)

ClientStep(c) ==
    \/ ClientCallWrite(c)
    \/ ClientCallRead(c)
    \/ NeedBlockGet(c)
    \/ NeedBlockMeta(c)
    \/ IncrefGet(c)
    \/ IncrefMerge(c)
    \/ IncrefPut(c)
    \/ DecrefMerge(c)
    \/ DecrefPut(c)

\* The block manager: the two resync workers and the tasks that call the
\* public operations.
Next ==
    \/ Tick
    \/ \E w \in Workers : WorkerStep(w)
    \/ \E p \in Workers \cup Clients : FsStep(p)
    \/ \E c \in Clients : ClientStep(c)

Spec == Init /\ [][Next]_vars

\* The public operations alone, called by two tasks that hold on to what
\* is returned.
NextCallers ==
    \/ Tick
    \/ \E k \in Callers : FsStep(k)
    \/ \E k \in Callers : ClientStep(k)
    \/ \E k \in Callers : ClientDone(k)
    \/ \E k \in Callers : ClientReadAfterWrite(k)

SpecCallers == Init /\ [][NextCallers]_vars

\* The resync workers alone, from what an earlier run left, a file cut
\* short included; the clock advances and each worker keeps running.
InitLive == BMInitFrom(StoredStates \cup {CutShort}) /\ MergeIdle /\ VersionIdle /\ HostIdle

NextLive ==
    \/ Tick
    \/ \E w \in Workers : WorkerStep(w)
    \/ \E w \in Workers : FsStep(w)

Fairness ==
    /\ WF_vars(Tick)
    /\ \A w \in Workers : WF_vars(WorkerStep(w) \/ FsStep(w))

SpecLive == InitLive /\ [][NextLive]_vars /\ Fairness

\* The background runner asks the workers to stop.
Shutdown ==
    /\ ~must_exit
    /\ must_exit' = TRUE
    /\ UNCHANGED <<now, rc, file, resync_queue, lock, pc, cur, loc, ops>>
    /\ UNCHANGED <<faults, mgvars, vtvars, hbvars>>

\* The resync workers, fair as in SpecLive, and a shutdown at any time.
NextShutdown ==
    \/ NextLive
    \/ Shutdown

SpecShutdown == InitLive /\ [][NextShutdown]_vars /\ Fairness

\* A long time passes between two steps: now_msec() comes to the time of
\* the first entry of the queue, however far that is.
TickToDue ==
    /\ now <= MaxTime
    /\ DOMAIN resync_queue # {}
    /\ LET time_msec == u64_from_bytes(MinKey(resync_queue)[1])
       IN  /\ now < time_msec
           /\ now' = time_msec
    /\ UNCHANGED <<rc, file, resync_queue, lock, must_exit, pc, cur, loc, ops>>
    /\ UNCHANGED <<faults, mgvars, vtvars, hbvars>>

\* The workers and the client of Spec, the clock free to run past any
\* delay of put_to_resync while an operation is in progress.
NextLate ==
    \/ Next
    \/ TickToDue

SpecLate == Init /\ [][NextLate]_vars

\* The public operations alone again, from what an earlier run left, a
\* file cut short included.
SpecStored == InitLive /\ [][NextCallers]_vars

\* ------------------------------------------------- the merge operator
\* sled applies rc_merge to the operands merged on one key, one at a time,
\* in the order the merges arrive.  m_opsA and m_opsB are two orders of the
\* same operands, applied side by side to the same starting value.
Operands == {0, 1}

OperandSeqs == UNION {[1..n -> Operands] : n \in 0..MaxMerges}

Count(ops_, x) == Cardinality({i \in DOMAIN ops_ : ops_[i] = x})

SameOperands(a, b) == Len(a) = Len(b) /\ Count(a, 1) = Count(b, 1)

InitMerge ==
    /\ BMInitFrom({CHOOSE st \in StoredStates : st.rc = None /\ st.file = NoFile})
    /\ m_old \in {None} \cup {Some(n) : n \in 1..MaxRC}
    /\ m_opsA \in OperandSeqs
    /\ m_opsB \in OperandSeqs
    /\ SameOperands(m_opsA, m_opsB)
    /\ m_i = 0 /\ m_j = 0
    /\ m_a = m_old /\ m_b = m_old
    /\ VersionIdle /\ HostIdle

MergeA ==
    /\ m_i < Len(m_opsA)
    /\ m_a' = rc_merge(m_a, m_opsA[m_i + 1])
    /\ m_i' = m_i + 1
    /\ UNCHANGED <<bmvars, m_old, m_opsA, m_opsB, m_j, m_b, vtvars, hbvars>>

MergeB ==
    /\ m_j < Len(m_opsB)
    /\ m_b' = rc_merge(m_b, m_opsB[m_j + 1])
    /\ m_j' = m_j + 1
    /\ UNCHANGED <<bmvars, m_old, m_opsA, m_opsB, m_i, m_a, vtvars, hbvars>>

NextMerge == MergeA \/ MergeB

SpecMerge == InitMerge /\ [][NextMerge]_vars

\* ------------------------------------------------------ version table
\* src/src/store/version_table.rs.  One uuid, one bucket and one key; the
\* blocks are (offset, hash) pairs.
Slots == {"a", "b"}

Offsets == {0, 1}

BlockHashes == {"h", "g"}

VersionBlocks == [offset : Offsets, hash : BlockHashes]

\* binary_search_by(|b| b.offset.cmp(&o)) on blocks sorted by offset: Ok when
\* a block has the offset, else Err(i), i the place where it goes.
HasOffset(blocks, o) == \E i \in DOMAIN blocks : blocks[i].offset = o

InsertPos(blocks, o) == 1 + Cardinality({i \in DOMAIN blocks : blocks[i].offset < o})

\* Vec::insert(i, b)
VecInsert(blocks, i, b) ==
    SubSeq(blocks, 1, i - 1) \o <<b>> \o SubSeq(blocks, i, Len(blocks))

\* Version::add_block: the result and the version after the call.
add_block(self, new) ==
    IF HasOffset(self.blocks, new.offset)
    THEN [ok |-> FALSE, v |-> self]
    ELSE [ok |-> TRUE,
          v  |-> [self EXCEPT !.blocks =
                    VecInsert(self.blocks, InsertPos(self.blocks, new.offset), new)]]

RECURSIVE AddBlocks(_, _)
AddBlocks(ret, blocks) ==
    IF blocks = <<>> THEN ret
    ELSE AddBlocks(add_block(ret, Head(blocks)).v, Tail(blocks))

\* Version::new; it panics on two blocks of the same offset.
Version_new(uuid, bucket, key, deleted, blocks) ==
    AddBlocks([uuid |-> uuid, deleted |-> deleted, blocks |-> <<>>,
               bucket |-> bucket, key |-> key], blocks)

\* The block lists Version::new is called with: no offset twice, any order.
BlockLists ==
    {<<>>} \cup {<<b>> : b \in VersionBlocks}
           \cup {<<b1, b2>> : b1, b2 \in VersionBlocks}

NoOffsetTwice(blocks) ==
    \A i, j \in DOMAIN blocks : i # j => blocks[i].offset # blocks[j].offset

RECURSIVE MergeBlocks(_, _)
MergeBlocks(blocks, others) ==
    IF others = <<>> THEN blocks
    ELSE LET bi == Head(others) IN
         MergeBlocks(IF HasOffset(blocks, bi.offset) THEN blocks
                     ELSE VecInsert(blocks, InsertPos(blocks, bi.offset), bi),
                     Tail(others))

\* Version_merge leaving the blocks of self when other is deleted.
Version_merge_KeepBlocks(self, other) ==
    IF other.deleted
    THEN [self EXCEPT !.deleted = TRUE]
    ELSE IF ~self.deleted
    THEN [self EXCEPT !.blocks = MergeBlocks(self.blocks, other.blocks)]
    ELSE self

\* Entry::merge for Version: self after self.merge(other).
Version_merge(self, other) ==
    IF other.deleted
    THEN [self EXCEPT !.deleted = TRUE, !.blocks = <<>>]
    ELSE IF ~self.deleted
    THEN [self EXCEPT !.blocks = MergeBlocks(self.blocks, other.blocks)]
    ELSE self

\* VersionTable::updated with the blocks of new_v in the place of old_v's.
updated_NewBlocks(old, new) ==
    IF old # None /\ new # None
    THEN LET old_v == Unwrap(old)
             new_v == Unwrap(new)
         IN  IF new_v.deleted /\ ~old_v.deleted
             THEN [i \in DOMAIN new_v.blocks |->
                     [block |-> new_v.blocks[i].hash, version |-> old_v.uuid,
                      deleted |-> TRUE]]
             ELSE <<>>
    ELSE <<>>

\* VersionTable::updated: the BlockRefs it passes to insert_many, none when
\* insert_many is not called.
updated(old, new) ==
    IF old # None /\ new # None
    THEN LET old_v == Unwrap(old)
             new_v == Unwrap(new)
         IN  IF new_v.deleted /\ ~old_v.deleted
             THEN [i \in DOMAIN old_v.blocks |->
                     [block |-> old_v.blocks[i].hash, version |-> old_v.uuid,
                      deleted |-> TRUE]]
             ELSE <<>>
    ELSE <<>>

VersionStep ==
    /\ v_n < MaxVersionSteps
    /\ v_n' = v_n + 1

\* A Version is built with Version::new.
VersionNew(x) ==
    /\ vs[x] = None
    /\ \E deleted \in BOOLEAN, blocks \in BlockLists :
         /\ NoOffsetTwice(blocks)
         /\ vs' = [vs EXCEPT ![x] = Some(Version_new("u", "bucket", "key", deleted, blocks))]
    /\ UNCHANGED <<v_ab, v_ba, entry, block_refs, v_n>>
    /\ UNCHANGED <<bmvars, mgvars, hbvars>>

\* add_block on a Version, Ok or Err.
VersionAddBlock(x) ==
    /\ vs[x] # None
    /\ VersionStep
    /\ \E new \in VersionBlocks :
         vs' = [vs EXCEPT ![x] = Some(add_block(Unwrap(vs[x]), new).v)]
    /\ UNCHANGED <<v_ab, v_ba, entry, block_refs>>
    /\ UNCHANGED <<bmvars, mgvars, hbvars>>

\* A call self.merge(other) and what it leaves in self.
MergeOf(self, other) ==
    [self |-> self, other |-> other, merged |-> Version_merge(self, other)]

\* x.merge(y); the merge in the other order is applied to copies.
VersionMerge(x, y) ==
    /\ x # y
    /\ vs[x] # None /\ vs[y] # None
    /\ VersionStep
    /\ v_ab' = Some(MergeOf(Unwrap(vs[x]), Unwrap(vs[y])))
    /\ v_ba' = Some(MergeOf(Unwrap(vs[y]), Unwrap(vs[x])))
    /\ vs' = [vs EXCEPT ![x] = Some(Version_merge(Unwrap(vs[x]), Unwrap(vs[y])))]
    /\ UNCHANGED <<entry, block_refs>>
    /\ UNCHANGED <<bmvars, mgvars, hbvars>>

\* The table applies a Version it received to the entry of the uuid: the
\* entry becomes the received value, or the stored one merged with it, and
\* updated(old, new) runs; insert_many inserts what it is given.
TableUpdate(x) ==
    /\ vs[x] # None
    /\ VersionStep
    /\ LET old == entry
           new == IF old = None THEN vs[x]
                  ELSE Some(Version_merge(Unwrap(old), Unwrap(vs[x])))
       IN  /\ entry' = new
           /\ block_refs' = block_refs \o updated(old, new)
    /\ UNCHANGED <<vs, v_ab, v_ba>>
    /\ UNCHANGED <<bmvars, mgvars, hbvars>>

NextVersion ==
    \/ \E x \in Slots : VersionNew(x)
    \/ \E x \in Slots : VersionAddBlock(x)
    \/ \E x, y \in Slots : VersionMerge(x, y)
    \/ \E x \in Slots : TableUpdate(x)

InitVersion ==
    /\ BMInitFrom({CHOOSE st \in StoredStates : st.rc = None /\ st.file = NoFile})
    /\ MergeIdle /\ VersionIdle /\ HostIdle

SpecVersion == InitVersion /\ [][NextVersion]_vars

\* ---------------------------------------------------------- web server
\* src/src/web/web_server.rs.  A str is the sequence of its bytes; the host
\* comes from HeaderValue::to_str, so every char is one byte.
Chars == {".", "a", "b"}

Strs == UNION {[1..n -> Chars] : n \in 0..MaxHostLen}

\* str::ends_with
ends_with(s_, suffix) ==
    /\ Len(suffix) <= Len(s_)
    /\ SubSeq(s_, Len(s_) - Len(suffix) + 1, Len(s_)) = suffix

\* host_to_bucket without the byte of the separator.
host_to_bucket_KeepDot(host, root) ==
    IF Len(root) >= Len(host) \/ ~ends_with(host, root)
    THEN host
    ELSE LET len_diff == Len(host) - Len(root)
         IN  SubSeq(host, 1, len_diff)

\* host_to_bucket
host_to_bucket(host, root) ==
    IF Len(root) >= Len(host) \/ ~ends_with(host, root)
    THEN host
    ELSE LET len_diff == Len(host) - Len(root)
             missing_starting_dot == IF root = <<>> THEN TRUE ELSE root[1] # "."
             cursor == IF missing_starting_dot THEN len_diff - 1 ELSE len_diff
         IN  SubSeq(host, 1, cursor)

InitHost ==
    /\ BMInitFrom({CHOOSE st \in StoredStates : st.rc = None /\ st.file = NoFile})
    /\ MergeIdle /\ VersionIdle
    /\ h_host \in Strs
    /\ h_root \in Strs
    /\ h_bucket = None

\* handler, line 53: bucket = host_to_bucket(&host, root).
HostToBucket ==
    /\ h_bucket = None
    /\ h_bucket' = Some(host_to_bucket(h_host, h_root))
    /\ UNCHANGED <<h_host, h_root>>
    /\ UNCHANGED <<bmvars, mgvars, vtvars>>

NextHost == HostToBucket

SpecHost == InitHost /\ [][NextHost]_vars

TypeOK ==
    /\ now \in 0..(MaxTime + 2 * BLOCK_RW_TIMEOUT)
    /\ \A h \in Hashes : RC(h) \in 0..(1 + MaxOps + MaxCalls)
    /\ \A h \in Hashes : rc[h] # Some(0)
    /\ lock \in Procs \cup {Free}
    /\ ops \in 0..(MaxOps + MaxCalls)

\* =====================================================================
\* Properties
\* =====================================================================
Falses(who_needs) == Cardinality({n \in Peers : who_needs[n] = "false"})

Others(who_needs) == Cardinality({n \in Peers : who_needs[n] = "other"})

\* Worker w takes the step that leaves from and arrives at to.
WorkerMoves(w, from, to) == pc[w] = from /\ pc'[w] = to

\* The file of the hash worker w works on disappears in a step of w.
WorkerRemovesFile(w) ==
    /\ pc[w] # pc'[w]
    /\ cur[w] # <<>>
    /\ file[HashOf(w)] # NoFile
    /\ file'[HashOf(w)] = NoFile

\* C1 as stated: resync_iter removes the file of h only if (a) the
\* block_ref_table query returned no live BlockRef, or (b) a strict majority
\* of the RF nodes answered NeedBlockReply(false) and every node that
\* answered true acknowledged a PutBlock before the removal.
C1_AsStated ==
    [][\A w \in Workers :
         WorkerMoves(w, "ri_remove", "ri_qremove") =>
           \/ ~loc[w].needed_by_others
           \/ /\ 2 * Falses(loc[w].who_needs) > RF
              /\ NeedNodes(loc[w].who_needs) \subseteq loc[w].acked]_vars

\* C1 amended: the remove_file of resync_iter (line 257) runs only if (a) the
\* block_ref_table query returned no live BlockRef, or (b) at most
\* (RF - 1) / 2 of the NeedBlockQuery RPCs failed and every node that
\* answered NeedBlockReply(true) acknowledged a PutBlock before the removal;
\* the only other removal inside resync_iter is that of read_block (line
\* 100), of a file whose bytes read_block read did not hash to h.
C1_DeletionNeedsQuorum ==
    [][\A w \in Workers :
         /\ WorkerMoves(w, "ri_remove", "ri_qremove") =>
              \/ ~loc[w].needed_by_others
              \/ /\ Errors(loc[w].who_needs) <= (RF - 1) \div 2
                 /\ NeedNodes(loc[w].who_needs) \subseteq loc[w].acked
         /\ WorkerRemovesFile(w) =>
              \/ pc[w] = "ri_remove"
              \/ pc[w] = "rb_fix" /\ hash(loc[w].data) # HashOf(w)]_vars

\* C1 witness: a worker has just removed the file after a query round in
\* which some node answered true and acknowledged the PutBlock.
C1_Witness ==
    \E w \in Workers :
      /\ pc[w] = "ri_qremove"
      /\ loc[w].needed_by_others
      /\ NeedNodes(loc[w].who_needs) # {}
      /\ loc[w].acked = NeedNodes(loc[w].who_needs)
      /\ file[HashOf(w)] = NoFile

\* C2: in the deletion protocol, when more than (RF - 1) / 2 NeedBlockQuery
\* RPCs failed, resync_iter returns an error (the worker puts the hash back
\* at now + RESYNC_RETRY_TIMEOUT), the file is left as it is and the
\* iteration ends without reaching the PutBlock push; otherwise the deletion
\* goes on.  For RF = 3: one failure goes on, two failures abort.
C2_QuorumFailureAborts ==
    [][\A w \in Workers :
         (pc[w] = "ri_count" /\ pc'[w] # "ri_count") =>
           LET errors == Errors(loc[w].who_needs)
               aborted ==
                 /\ pc'[w] = "loop"
                 /\ file' = file
                 /\ QueueKey(now + RESYNC_RETRY_TIMEOUT, HashOf(w)) \in DOMAIN resync_queue'
                 /\ loc'[w].acked = {}
           IN  /\ errors > (RF - 1) \div 2 => aborted
               /\ errors <= (RF - 1) \div 2 => pc'[w] \in {"rb_read", "ri_remove"}
               /\ RF = 3 => /\ errors = 1 => pc'[w] \in {"rb_read", "ri_remove"}
                            /\ errors = 2 => aborted]_vars

\* C2 witness: the query round of a deletion came back with more than
\* (RF - 1) / 2 failed RPCs while the file exists.
C2_Witness ==
    \E w \in Workers :
      /\ pc[w] = "ri_count"
      /\ Errors(loc[w].who_needs) > (RF - 1) \div 2
      /\ file[HashOf(w)] # NoFile

\* C3 as stated: a NeedBlockQuery RPC that completes with a reply that is
\* not a NeedBlockReply is counted like a failed RPC, so that more than
\* (RF - 1) / 2 failed or malformed replies abort the deletion.
C3_MalformedCountsAsError ==
    [][\A w \in Workers :
         (/\ pc[w] = "ri_count" /\ pc'[w] # "ri_count"
          /\ Errors(loc[w].who_needs) + Others(loc[w].who_needs) > (RF - 1) \div 2)
         => pc'[w] = "loop"]_vars

\* The count a value of the rc tree stands for.
RCof(v) == IF v = None THEN 0 ELSE u64_from_bytes(Unwrap(v))

\* The keys of the queue that come due while the clock runs.
DueKeys == {QueueKey(t, h) : t \in 0..MaxTime, h \in Hashes}

\* Worker w is inside resync_iter (or a call it makes) for the entry in cur.
InResyncIter(w) == pc[w] \notin {"loop", "reinsert", "exited"}

\* C4: resync_iter is never started for a queue entry (when_msec, h) while
\* now_msec() < when_msec; an entry popped while still in the future is
\* inserted again with the same key and the same value; and, the workers
\* being fair and no shutdown requested, an entry in the queue is eventually
\* passed to resync_iter, at a time >= when_msec.
C4_EntryProcessedWhenDue ==
    /\ [][\A w \in Workers :
            /\ (pc[w] = "loop" /\ pc'[w] # "loop" /\ ~must_exit) =>
                 LET k == MinKey(resync_queue) IN
                   /\ cur'[w] = <<k, resync_queue[k]>>
                   /\ pc'[w] = "ri_exists" <=> now >= k[1]
                   /\ pc'[w] = "reinsert" <=> now < k[1]
            /\ (pc[w] = "reinsert" /\ pc'[w] # "reinsert") =>
                 /\ resync_queue' = TreeInsert(resync_queue, cur[w][1], cur[w][2])
                 /\ cur[w][1] \in DOMAIN resync_queue'
                 /\ resync_queue'[cur[w][1]] = cur[w][2]
            /\ InResyncIter(w)' => now' >= cur'[w][1][1]]_vars
    /\ \A k \in DueKeys :
         (k \in DOMAIN resync_queue)
           ~> (\E w \in Workers : pc[w] = "ri_exists" /\ cur[w][1] = k /\ now >= k[1])

\* C4 witness: an entry scheduled after the start (a retry) has been passed
\* to resync_iter once its time had come.
C4_Witness ==
    \E w \in Workers :
      /\ pc[w] = "ri_exists"
      /\ cur[w][1][1] > 0
      /\ now >= cur[w][1][1]

\* need_block of task k returns in this step.
NeedBlockReturns(k) == pc'[k] = "done" /\ loc'[k].op = "need_block"

\* C5: need_block(h) returns true if and only if RC(h) > 0 (the count it
\* reads) and the file of h is absent (when it looks); it returns false
\* whenever RC(h) = 0, the file present or not.
C5_NeedBlockIffReferencedAndAbsent ==
    [][\A k \in Callers :
         /\ (pc[k] = "idle" /\ pc'[k] = "nb_meta") => RC(cur'[k][1]) > 0
         /\ (pc[k] = "idle" /\ NeedBlockReturns(k)) =>
              /\ RC(cur'[k][1]) = 0
              /\ loc'[k].res = "false"
         /\ (pc[k] = "nb_meta" /\ pc'[k] # "nb_meta") =>
              /\ NeedBlockReturns(k)
              /\ loc[k].needed
              /\ loc'[k].res \in {"true", "false"}
              /\ loc'[k].res = "true" <=> file[HashOf(k)] = NoFile]_vars

\* C5 witness: need_block has returned true for a hash that is referenced
\* and has no file.
C5_Witness ==
    \E k \in Callers :
      /\ pc[k] = "done" /\ loc[k].op = "need_block" /\ loc[k].res = "true"
      /\ RC(HashOf(k)) > 0
      /\ file[HashOf(k)] = NoFile

\* Both orders of the operands have been applied.
MergesDone == m_i = Len(m_opsA) /\ m_j = Len(m_opsB)

\* C6 as stated: for every starting count and every multiset of increments
\* and decrements merged on one hash, the final count is the same for
\* every order of the merges.
C6_AsStated == MergesDone => m_a = m_b

\* C6 amended: when the decrements are no more than the starting count (no
\* decrement can meet the count 0), the final count is the same for every
\* order of the merges: the starting count plus the increments minus the
\* decrements.
C6_CommuteWithoutSaturation ==
    (MergesDone /\ Count(m_opsA, 0) <= RCof(m_old)) =>
      /\ m_a = m_b
      /\ RCof(m_a) = RCof(m_old) + Count(m_opsA, 1) - Count(m_opsA, 0)
      /\ m_a # Some(0)

\* C6 witness: two different orders of increments and decrements have been
\* applied to one starting count, no decrement more than it allows.
C6_Witness ==
    /\ MergesDone
    /\ m_opsA # m_opsB
    /\ Count(m_opsA, 0) > 0 /\ Count(m_opsA, 1) > 0
    /\ Count(m_opsA, 0) <= RCof(m_old)
    /\ m_a = m_b

\* C7 as stated: the merge of a block_incref raises RC(h) from 0 to 1
\* exactly when the block_incref goes on to insert the resync entry at
\* now + 2 * BLOCK_RW_TIMEOUT, whatever block_incref and block_decref calls
\* run at the same time on the hash.
C7_IncrefSchedulesResync ==
    [][\A k \in Callers :
         /\ (pc[k] = "ic_merge" /\ pc'[k] # "ic_merge") =>
              (RC(HashOf(k)) = 0 <=> pc'[k] = "ic_put")
         /\ (pc[k] = "ic_put" /\ pc'[k] # "ic_put") =>
              resync_queue' = TreeInsert(resync_queue,
                                QueueKey(now + 2 * BLOCK_RW_TIMEOUT, HashOf(k)),
                                HashOf(k))]_vars

\* Task k takes the first step of block_decref.
DecrefMerges(k) ==
    /\ pc[k] = "idle"
    /\ \/ pc'[k] = "dc_put"
       \/ pc'[k] = "done" /\ loc'[k].op = "block_decref"

\* C8: block_decref(h) decrements RC(h), saturating at zero; the key is
\* removed from the rc tree when the result is 0; a resync entry for h is
\* inserted at now + BLOCK_RW_TIMEOUT exactly when the count after the merge
\* is 0, and the queue is left as it is when that count is > 0.
C8_DecrefSaturatesAndSchedules ==
    [][\A k \in Callers :
         /\ DecrefMerges(k) =>
              LET h == cur'[k][1] IN
                /\ RCof(rc'[h]) = IF RC(h) > 0 THEN RC(h) - 1 ELSE 0
                /\ RCof(rc'[h]) = 0 => rc'[h] = None
                /\ pc'[k] = "dc_put" <=> RCof(rc'[h]) = 0
                /\ resync_queue' = resync_queue
         /\ (pc[k] = "dc_put" /\ pc'[k] # "dc_put") =>
              /\ pc'[k] = "done"
              /\ resync_queue' = TreeInsert(resync_queue,
                                   QueueKey(now + BLOCK_RW_TIMEOUT, HashOf(k)),
                                   HashOf(k))]_vars

\* C8 witness: a block_decref has brought the count to 0 and returned, its
\* entry in the queue.
C8_Witness ==
    \E k \in Callers :
      /\ pc[k] = "done" /\ loc[k].op = "block_decref"
      /\ rc[HashOf(k)] = None
      /\ \E t \in 0..now : QueueKey(t + BLOCK_RW_TIMEOUT, HashOf(k)) \in DOMAIN resync_queue

\* Task k holds the result res of a write_block.
WriteReturned(k, res) ==
    pc[k] = "done" /\ loc[k].op = "write_block" /\ loc[k].res = res

\* C9: write_block(h, b) called when a file of h exists returns Ok and
\* leaves the file as it is; a write_block fails only when its write to the
\* file fails; and when two write_block(h, b), one after the other or at the
\* same time, have both returned Ok, the file of h is there.
C9_WriteBlockIdempotent ==
    [][/\ \A k \in Callers :
            /\ (pc[k] = "wb_start" /\ pc'[k] # "wb_start" /\ file[HashOf(k)] # NoFile) =>
                 /\ WriteReturned(k, "Ok")'
                 /\ file' = file
            /\ (pc[k] \in {"wb_start", "wb_write"} /\ WriteReturned(k, "Err")') =>
                 faults' > faults
            /\ (lock' = k /\ lock # k) => lock = Free
       /\ (\A k \in Callers : WriteReturned(k, "Ok")') =>
            \A k \in Callers : file'[cur'[k][1]] # NoFile]_vars

\* C9 witness: two write_block of one hash have returned Ok, one having
\* written the file, the other having found it.
C9_Witness ==
    \E k1, k2 \in Callers :
      /\ k1 # k2
      /\ WriteReturned(k1, "Ok") /\ loc[k1].saw = NoFile
      /\ WriteReturned(k2, "Ok") /\ loc[k2].saw = Some(Block(HashOf(k2)))
      /\ file[HashOf(k1)] = Some(Block(HashOf(k1)))

\* C10 as stated: from any state of the block directory the program can
\* reach, a write_block(h, b) that returned Ok, followed by read_block(h),
\* returns PutBlock(h, b).
C10_RoundTrip ==
    \A k \in Callers :
      (pc[k] = "done" /\ loc[k].op = "read_block" /\ loc[k].after_write # None) =>
        /\ loc[k].res = "PutBlock"
        /\ loc[k].data = Block(HashOf(k))

\* C11 as stated: whenever read_block(h) has read bytes whose hash is not
\* h, it removes the file, inserts a resync entry for h at now and returns
\* CorruptData(h), also when several read_block(h) run at the same time;
\* and read_block returns PutBlock only with bytes whose hash is h.
C11_CorruptReadDeletesAndRequeues ==
    [][\A k \in Callers :
         /\ (pc[k] = "rb_fix" /\ pc'[k] # "rb_fix") =>
              /\ pc'[k] = "done"
              /\ loc'[k].res = "CorruptData"
              /\ file'[HashOf(k)] = NoFile
              /\ QueueKey(now, HashOf(k)) \in DOMAIN resync_queue'
         /\ (pc[k] = "rb_read" /\ pc'[k] = "done" /\ loc'[k].res = "PutBlock") =>
              hash(loc'[k].data) = HashOf(k)]_vars

\* Two versions give their blocks the same hash at every offset both have.
AgreeOnOffsets(a, b) ==
    \A i \in DOMAIN a.blocks, j \in DOMAIN b.blocks :
      a.blocks[i].offset = b.blocks[j].offset => a.blocks[i].hash = b.blocks[j].hash

\* C12 as stated: for any two Versions a and b of one uuid, bucket and key
\* (any deleted flags, any block lists with strictly increasing offsets),
\* a.merge(b) and b.merge(a) leave equal values.
C12_AsStated == v_ab # None => Unwrap(v_ab).merged = Unwrap(v_ba).merged

\* C12 amended: a.merge(b) and b.merge(a) leave equal values exactly when:
\* both are deleted; or one is deleted and has an empty block list; or both
\* are live and give the same hash to every offset both have.
C12_MergeCommutesWhenCompatible ==
    v_ab # None =>
      LET a == Unwrap(v_ab).self
          b == Unwrap(v_ab).other
      IN  (Unwrap(v_ab).merged = Unwrap(v_ba).merged)
            <=> \/ a.deleted /\ b.deleted
                \/ a.deleted /\ ~b.deleted /\ a.blocks = <<>>
                \/ b.deleted /\ ~a.deleted /\ b.blocks = <<>>
                \/ ~a.deleted /\ ~b.deleted /\ AgreeOnOffsets(a, b)

\* C12 witness: two live versions with different block lists that share an
\* offset have been merged in both orders, with equal results.
C12_Witness ==
    /\ v_ab # None
    /\ LET a == Unwrap(v_ab).self
           b == Unwrap(v_ab).other
       IN  /\ ~a.deleted /\ ~b.deleted
           /\ a.blocks # b.blocks
           /\ \E i \in DOMAIN a.blocks, j \in DOMAIN b.blocks :
                a.blocks[i].offset = b.blocks[j].offset
           /\ Len(Unwrap(v_ab).merged.blocks) = Cardinality(Offsets)
           /\ Unwrap(v_ab).merged = Unwrap(v_ba).merged

\* C13 as stated: every Version reached through Version::new, add_block and
\* merge that has deleted = true has an empty block list; and a merge never
\* takes deleted back to false nor adds a block to a deleted version.
C13_DeletedHasNoBlocks ==
    /\ \A x \in Slots :
         (vs[x] # None /\ Unwrap(vs[x]).deleted) => Unwrap(vs[x]).blocks = <<>>
    /\ v_ab # None =>
         (Unwrap(v_ab).self.deleted =>
            /\ Unwrap(v_ab).merged.deleted
            /\ Len(Unwrap(v_ab).merged.blocks) <= Len(Unwrap(v_ab).self.blocks))

\* The BlockRefs the deletion of a version asks for: one per block of old,
\* when old is live and new is deleted.
Tombstones(old, new) ==
    IF old # None /\ new # None /\ ~Unwrap(old).deleted /\ Unwrap(new).deleted
    THEN [i \in DOMAIN Unwrap(old).blocks |->
            [block |-> Unwrap(old).blocks[i].hash, version |-> Unwrap(old).uuid,
             deleted |-> TRUE]]
    ELSE <<>>

\* C14: over any sequence of merges applied to the entry of a version,
\* updated(old, new) inserts BlockRef{block, version = old.uuid, deleted =
\* true} for every block of old at the update where old is live and new is
\* deleted, and inserts nothing at any other update (old absent, old
\* deleted, new live); so BlockRefs are inserted at one update at most.
C14_TombstonesOnDeletionOnly ==
    [][/\ (entry' # entry \/ block_refs' # block_refs) =>
            block_refs' = block_refs \o Tombstones(entry, entry')
       /\ block_refs' # block_refs => block_refs = <<>>]_vars

\* C14 witness: a live entry with a block at every offset has been merged
\* with a deleted version and the BlockRefs of its blocks are inserted.
C14_Witness ==
    /\ entry # None /\ Unwrap(entry).deleted
    /\ Len(block_refs) = Cardinality(Offsets)

\* C15: host_to_bucket(host, root) is host when host does not end with
\* root or is not strictly longer than root; otherwise it is host without
\* the suffix root and, when root does not start with '.', without the one
\* byte before that suffix; so "a.b" gives "a" for the roots ".b" and "b"
\* (as "john.doe.garage.tld" gives "john.doe" for ".garage.tld" and
\* "garage.tld").
C15_HostToBucket ==
    h_bucket # None =>
      LET bucket == Unwrap(h_bucket) IN
        /\ IF ~ends_with(h_host, h_root) \/ Len(h_host) <= Len(h_root)
           THEN bucket = h_host
           ELSE IF h_root # <<>> /\ Head(h_root) = "."
           THEN bucket \o h_root = h_host
           ELSE \E c \in Chars : bucket \o <<c>> \o h_root = h_host
        /\ (h_host = <<"a", ".", "b">> /\ h_root \in {<<".", "b">>, <<"b">>}) =>
             bucket = <<"a">>

\* C15 witness: the bucket of "a.b" under the root "b", which does not
\* start with a dot, has been computed.
C15_Witness ==
    /\ h_host = <<"a", ".", "b">>
    /\ h_root = <<"b">>
    /\ h_bucket = Some(<<"a">>)

\* The resync_iter of worker w returns an error in this step: the
\* block_ref_table query, the quorum, the push, remove_file, the fetch, the
\* write of write_block, or read_block failed.
ResyncIterFails(w) ==
    /\ pc'[w] # pc[w]
    /\ \/ pc[w] \in {"ri_refs", "ri_count", "ri_push", "ri_fetch", "rb_read", "rb_fix"}
          /\ pc'[w] \in {"loop", "exited"}
       \/ pc[w] = "ri_remove" /\ file[HashOf(w)] = NoFile
       \/ pc[w] = "wb_write" /\ faults' > faults

\* C16 as stated: when resync_iter(h) returns an error in a worker, the
\* worker does not terminate, h is back in the queue at now +
\* RESYNC_RETRY_TIMEOUT, and h is retried no sooner than that: the queue
\* holds no entry of h that comes due earlier.
C16_AsStated ==
    [][\A w \in Workers :
         ResyncIterFails(w) =>
           /\ pc'[w] = "loop"
           /\ QueueKey(now + RESYNC_RETRY_TIMEOUT, HashOf(w)) \in DOMAIN resync_queue'
           /\ \A k \in DOMAIN resync_queue' :
                k[2] = HashOf(w) => k[1] >= now + RESYNC_RETRY_TIMEOUT]_vars

\* C16 amended: when resync_iter(h) returns an error in a worker, the worker
\* goes back to the loop head, the entry (now + RESYNC_RETRY_TIMEOUT, h) with
\* value h is in the queue, and no entry that was in the queue is lost.
C16_FailureRequeues ==
    [][\A w \in Workers :
         ResyncIterFails(w) =>
           /\ pc'[w] = "loop"
           /\ QueueKey(now + RESYNC_RETRY_TIMEOUT, HashOf(w)) \in DOMAIN resync_queue'
           /\ resync_queue'[QueueKey(now + RESYNC_RETRY_TIMEOUT, HashOf(w))] = HashOf(w)
           /\ \A k \in DOMAIN resync_queue :
                k \in DOMAIN resync_queue' /\ resync_queue'[k] = resync_queue[k]]_vars

\* C16 witness: an iteration has failed, its worker is back at the loop
\* head and the hash is in the queue, due RESYNC_RETRY_TIMEOUT from now.
C16_Witness ==
    /\ faults > 0
    /\ \A w \in Workers : pc[w] = "loop"
    /\ \E h \in Hashes : QueueKey(now + RESYNC_RETRY_TIMEOUT, h) \in DOMAIN resync_queue

\* C17: when RC(h) went to 0 and is above 0 again by the time the resync
\* entry of the decref is processed, that resync_iter does not remove the
\* file: it reads the count at its start, finds needed = true and returns,
\* the file it found left in place; no removal of an iteration follows a
\* count read above 0.
C17_ReincrementedBlockIsKept ==
    [][\A w \in Workers :
         /\ (pc[w] = "ri_needed" /\ pc'[w] # "ri_needed" /\ RC(HashOf(w)) > 0) =>
              /\ file' = file
              /\ loc[w].exists => pc'[w] = "loop" /\ resync_queue' = resync_queue
              /\ ~loc[w].exists => pc'[w] = "ri_fetch"
         /\ WorkerRemovesFile(w) => ~loc[w].needed]_vars

\* C17 witness: the entry left for a count that went to 0 is being
\* processed, the file is there and a block_incref has raised the count
\* again.
C17_Witness ==
    \E w \in Workers :
      /\ pc[w] = "ri_needed"
      /\ loc[w].exists
      /\ file[HashOf(w)] # NoFile
      /\ RC(HashOf(w)) > 0
      /\ ops > 0

\* C18 as stated: when resync_iter(h) completes the deletion branch (file
\* removed, then resync_queue.remove), the entries of h that were in the
\* queue are no longer in the queue.
C18_StaleEntriesRemoved ==
    [][\A w \in Workers :
         WorkerMoves(w, "ri_qremove", "loop") =>
           \A k \in DOMAIN resync_queue :
             k[2] = HashOf(w) => k \notin DOMAIN resync_queue']_vars

\* C19: once must_exit is true, a worker at the loop head pops no entry and
\* terminates, a worker inside an iteration finishes it, comes back to the
\* loop head (also through the `continue` after a processed entry) and
\* terminates; a terminated worker stays so; and both workers do terminate.
C19_ShutdownStopsWorkers ==
    /\ [][\A w \in Workers :
            /\ (must_exit /\ pc[w] = "loop" /\ pc'[w] # "loop") =>
                 /\ pc'[w] = "exited"
                 /\ resync_queue' = resync_queue
            /\ (must_exit /\ pc'[w] # pc[w] /\ pc'[w] \in {"ri_exists", "reinsert"}) =>
                 FALSE
            /\ pc[w] = "exited" => pc'[w] = "exited"
            /\ must_exit => must_exit']_vars
    /\ must_exit ~> (\A w \in Workers : pc[w] = "exited")

\* C19 witness: both workers have terminated after a shutdown, an entry
\* that is due left in the queue.
C19_Witness ==
    /\ must_exit
    /\ \A w \in Workers : pc[w] = "exited"
    /\ \E k \in DOMAIN resync_queue : k[1] <= now

\* C20 as stated: when read_block(h) removes the file of h (line 100), the
\* contents of the file at that moment do not hash to h.
C20_RemovesOnlyCorruptFile ==
    [][\A p \in Workers \cup Clients :
         ( /\ pc[p] = "rb_fix" /\ pc'[p] # "rb_fix"
           /\ file[HashOf(p)] # NoFile
           /\ file'[HashOf(p)] = NoFile ) =>
             hash(Unwrap(file[HashOf(p)])) # HashOf(p)]_vars

\* C21 as stated: when the deletion branch of resync_iter(h) removes the
\* file of h (line 257), RC(h) is not above zero at that moment, whatever
\* block_incref did since the count was read at lines 196-200.
C21_RemovesOnlyUnreferenced ==
    [][\A w \in Workers :
         (pc[w] = "ri_remove" /\ WorkerRemovesFile(w)) =>
           RCof(rc[HashOf(w)]) = 0]_vars

\* No operation is in progress: every worker is at the loop head or has
\* terminated, every caller is between two operations.
Quiescent ==
    /\ \A w \in Workers : pc[w] \in {"loop", "exited"}
    /\ \A c \in Tasks : pc[c] \in {"idle", "done"}

\* C22 as stated: in every state in which no operation is in progress, a
\* hash with RC > 0 and no file has at least one entry in the resync queue.
C22_WantedAndMissingIsQueued ==
    Quiescent =>
      \A h \in Hashes :
        (RCof(rc[h]) > 0 /\ file[h] = NoFile) =>
          \E k \in DOMAIN resync_queue : k[2] = h

====
